---- MODULE Spec2Model ----
(***************************************************************************)
(* Model of the structured (shared-factor) Tucker tensor of                *)
(* tucker_riemopt/symmetric/tucker.py, of the PyTorch backend helpers it   *)
(* calls, and of the matrix view of tucker_riemopt/sf_tucker/matrix.py.    *)
(*                                                                         *)
(* A dense array is a record [shape, val]: shape is the tuple of its       *)
(* dimensions and val maps every index tuple (0-based entries, as in       *)
(* Python) to an integer.  Python objects that can be aliased (arrays and  *)
(* lists) carry an identity, id; two fields alias each other exactly when  *)
(* their ids are equal.  A Python exception is an outcome with ok = FALSE. *)
(***************************************************************************)
EXTENDS Integers, Sequences, FiniteSets, TLC

VARIABLES
    A,      \* the structured tensor the operation is called on (self)
    B,      \* the second structured operand (other)
    call,   \* the call that produced res: its name and arguments
    res,    \* what the call returned or raised
    W,      \* the matrix view (SFTuckerMatrix) that __matmul__ is called on
    plan,   \* the label plan the last contraction was built with
    steps   \* the number of calls that have returned so far

vars == <<A, B, call, res, W, plan, steps>>

\* ------------------------------------------------------------------ bounds
MaxDim == 2
MaxRank == 2
MaxSize == 2
MaxMatDim == 4
MaxBatch == 2

\* ------------------------------------------------------------- small helpers
SeqMax(s) == IF Len(s) = 0 THEN 0 ELSE CHOOSE x \in {s[j] : j \in 1..Len(s)} : \A j \in 1..Len(s) : s[j] <= x

Range(s) == {s[j] : j \in 1..Len(s)}

Reverse(s) == [j \in 1..Len(s) |-> s[Len(s) + 1 - j]]

RECURSIVE SumSet(_, _)
SumSet(S, f) == IF S = {} THEN 0 ELSE LET x == CHOOSE y \in S : TRUE IN f[x] + SumSet(S \ {x}, f)

RECURSIVE SeqProd(_)
SeqProd(s) == IF Len(s) = 0 THEN 1 ELSE s[1] * SeqProd(Tail(s))

\* the ascending list of the members of a set of mode numbers
RECURSIVE SortedList(_)
SortedList(S) == IF S = {} THEN <<>> ELSE LET x == CHOOSE y \in S : \A z \in S : y <= z IN <<x>> \o SortedList(S \ {x})

\* -------------------------------------------------------------------- arrays
\* every index tuple of an array of the given shape
Idx(shape) == {f \in [1..Len(shape) -> 0..(SeqMax(shape) - 1)] : \A j \in 1..Len(shape) : f[j] < shape[j]}

Arr(shape, F(_)) == [shape |-> shape, val |-> [ix \in Idx(shape) |-> F(ix)]]

\* the position of an index tuple in row-major order
RECURSIVE LinIdx(_, _)
LinIdx(shape, ix) == IF Len(shape) = 0 THEN 0 ELSE LET n == Len(shape) IN ix[n] + shape[n] * LinIdx(SubSeq(shape, 1, n - 1), SubSeq(ix, 1, n - 1))

Scalar0 == [shape |-> <<>>, val |-> [ix \in {<<>>} |-> 0]]

\* an object of the Python heap: an array with its identity, or None
Obj(id, a) == [id |-> id, none |-> FALSE, arr |-> a]

PyNone == [id |-> 0, none |-> TRUE, arr |-> Scalar0]

\* outcomes of a backend call: an array, or an exception
Ok(a) == [ok |-> TRUE, arr |-> a]

Raise == [ok |-> FALSE, arr |-> Scalar0]

\* torch.nn.functional.pad(tensor, flat, "constant", 0): flat holds (left, right)
\* pairs, the first pair for the LAST dimension, the next for the one before it
TorchPad(t, flat) ==
    LET d == Len(t.shape)
        left(j) == flat[2 * (d - j) + 1]
        right(j) == flat[2 * (d - j) + 2]
        shape == [j \in 1..d |-> left(j) + t.shape[j] + right(j)]
        inside(ix) == \A j \in 1..d : ix[j] >= left(j) /\ ix[j] < left(j) + t.shape[j]
    IN Arr(shape, LAMBDA ix : IF inside(ix) THEN t.val[[j \in 1..d |-> ix[j] - left(j)]] ELSE 0)

\* PyTorchBackend.pad: the (before, after) pairs are flattened and the flat list
\* is reversed element by element
pad(t, pad_width) ==
    LET flat_pad_width == [j \in 1..(2 * Len(pad_width)) |-> pad_width[(j + 1) \div 2][IF j % 2 = 1 THEN 1 ELSE 2]]
    IN TorchPad(t, Reverse(flat_pad_width))

\* PyTorchBackend.concatenate of two arrays: torch.cat raises unless both are
\* arrays of one order that agree on every dimension but axis (0-based)
concatenate(x, y, axis) ==
    IF x.none \/ y.none THEN Raise
    ELSE LET a == x.arr
             b == y.arr
             d == Len(a.shape)
         IN IF Len(b.shape) # d \/ axis >= d \/ (\E j \in 1..d : j # axis + 1 /\ a.shape[j] # b.shape[j]) THEN Raise
            ELSE Ok(Arr([j \in 1..d |-> IF j = axis + 1 THEN a.shape[j] + b.shape[j] ELSE a.shape[j]],
                        LAMBDA ix : IF ix[axis + 1] < a.shape[axis + 1] THEN a.val[ix]
                                    ELSE b.val[[ix EXCEPT ![axis + 1] = @ - a.shape[axis + 1]]]))

\* mat @ factor of two matrices: raises unless the inner dimensions agree
MatMul(x, y) ==
    IF x.none \/ y.none THEN Raise
    ELSE LET a == x.arr
             b == y.arr
         IN IF Len(a.shape) # 2 \/ Len(b.shape) # 2 \/ a.shape[2] # b.shape[1] THEN Raise
            ELSE Ok(Arr(<<a.shape[1], b.shape[2]>>,
                        LAMBDA ix : SumSet(0..(a.shape[2] - 1), [c \in 0..(a.shape[2] - 1) |-> a.val[<<ix[1], c>>] * b.val[<<c, ix[2]>>]])))

\* matrix.T
Transpose(a) == Arr(<<a.shape[2], a.shape[1]>>, LAMBDA ix : a.val[<<ix[2], ix[1]>>])

\* a * core for a number a
Scale(a, t) == Arr(t.shape, LAMBDA ix : a * t.val[ix])

\* PyTorchBackend.copy: tensor.clone() is a new array; None has no clone()
copy(x, id) == IF x.none THEN [ok |-> FALSE, obj |-> PyNone] ELSE [ok |-> TRUE, obj |-> Obj(id, x.arr)]

\* torch.einsum(ops with label lists labs -> out).  Labels are positions in
\* string.ascii_letters.  A label repeated inside one operand takes that operand's
\* diagonal and needs equal sizes there; across operands the sizes of one label
\* must agree or be 1 (broadcast); a label may appear only once in the output and
\* must appear in an operand.  Labels missing from the output are summed over.
EinsumLabels(labs) == UNION {Range(labs[k]) : k \in 1..Len(labs)}

EinsumDims(ops, labs, l) == UNION {{ops[k].shape[j] : j \in {i \in 1..Len(labs[k]) : labs[k][i] = l}} : k \in 1..Len(labs)}

EinsumSize(ops, labs, l) == CHOOSE x \in EinsumDims(ops, labs, l) : \A y \in EinsumDims(ops, labs, l) : y <= x

EinsumOk(ops, labs, out) ==
    /\ \A k \in 1..Len(ops) : Len(labs[k]) = Len(ops[k].shape)
    /\ \A k \in 1..Len(ops) : \A i, j \in 1..Len(labs[k]) : labs[k][i] = labs[k][j] => ops[k].shape[i] = ops[k].shape[j]
    /\ \A l \in EinsumLabels(labs) : EinsumDims(ops, labs, l) \subseteq {1, EinsumSize(ops, labs, l)}
    /\ \A i, j \in 1..Len(out) : out[i] = out[j] => i = j
    /\ Range(out) \subseteq EinsumLabels(labs)

Einsum(ops, labs, out) ==
    IF ~EinsumOk(ops, labs, out) THEN Raise
    ELSE LET size == [l \in EinsumLabels(labs) |-> EinsumSize(ops, labs, l)]
             summed == EinsumLabels(labs) \ Range(out)
             top == IF summed = {} THEN 0 ELSE (CHOOSE x \in {size[l] : l \in summed} : \A l \in summed : size[l] <= x) - 1
             assignments == {g \in [summed -> 0..top] : \A l \in summed : g[l] < size[l]}
             at(g, ix, l) == IF l \in summed THEN g[l] ELSE ix[CHOOSE j \in 1..Len(out) : out[j] = l]
             entry(g, ix, k) == ops[k].val[[j \in 1..Len(labs[k]) |-> IF ops[k].shape[j] = 1 THEN 0 ELSE at(g, ix, labs[k][j])]]
             term(g, ix) == SeqProd([k \in 1..Len(ops) |-> entry(g, ix, k)])
         IN Ok(Arr([j \in 1..Len(out) |-> size[out[j]]],
                   LAMBDA ix : SumSet(assignments, [g \in assignments |-> term(g, ix)])))

\* ------------------------------------------------- the structured Tucker tensor
\* a Python list object: its identity and its items
List(id, items) == [id |-> id, items |-> items]

\* class Tucker of symmetric/tucker.py (the dataclass fields)
Tucker(core, common_factors, symmetric_modes, symmetric_factor) ==
    [core |-> core, common_factors |-> common_factors,
     symmetric_modes |-> symmetric_modes, symmetric_factor |-> symmetric_factor]

\* the plain Tucker tensor (tucker_riemopt.Tucker): a core and one factor a mode
RegularTucker(core, factors) == [core |-> core, factors |-> factors]

NullT == Tucker(PyNone, List(0, <<>>), List(0, <<>>), PyNone)

NullRT == RegularTucker(PyNone, List(0, <<>>))

rank(T) == T.core.arr.shape

ndim(T) == Len(T.core.arr.shape)

\* `mode in self.symmetric_modes`
IsSymmetric(T, mode) == mode \in Range(T.symmetric_modes.items)

\* Tucker.shape: the loop over the modes with its running index curr_common_mode;
\* reading .shape of None or indexing past the list raises
RECURSIVE shape_loop(_, _, _, _)
shape_loop(T, mode, curr_common_mode, shapes) ==
    IF mode >= ndim(T) THEN [ok |-> TRUE, shape |-> shapes]
    ELSE IF IsSymmetric(T, mode)
         THEN IF T.symmetric_factor.none THEN [ok |-> FALSE, shape |-> shapes]
              ELSE shape_loop(T, mode + 1, curr_common_mode, Append(shapes, T.symmetric_factor.arr.shape[1]))
         ELSE IF curr_common_mode >= Len(T.common_factors.items) THEN [ok |-> FALSE, shape |-> shapes]
              ELSE shape_loop(T, mode + 1, curr_common_mode + 1,
                              Append(shapes, T.common_factors.items[curr_common_mode + 1].arr.shape[1]))

shape(T) == shape_loop(T, 0, 0, <<>>)

\* the loop of to_regular_tucker without its `curr_common_mode += 1`
RECURSIVE to_regular_loop_mut(_, _, _, _)
to_regular_loop_mut(T, mode, curr_common_mode, factors) ==
    IF mode >= ndim(T) THEN [ok |-> TRUE, items |-> factors]
    ELSE IF IsSymmetric(T, mode)
         THEN to_regular_loop_mut(T, mode + 1, curr_common_mode, Append(factors, T.symmetric_factor))
         ELSE IF curr_common_mode >= Len(T.common_factors.items) THEN [ok |-> FALSE, items |-> factors]
              ELSE to_regular_loop_mut(T, mode + 1, curr_common_mode,
                                       Append(factors, T.common_factors.items[curr_common_mode + 1]))

\* Tucker.to_regular_tucker: the same loop collects the factor objects themselves
\* (no copy) into a new list; the core object is passed on as it is
RECURSIVE to_regular_loop(_, _, _, _)
to_regular_loop(T, mode, curr_common_mode, factors) ==
    IF mode >= ndim(T) THEN [ok |-> TRUE, items |-> factors]
    ELSE IF IsSymmetric(T, mode)
         THEN to_regular_loop(T, mode + 1, curr_common_mode, Append(factors, T.symmetric_factor))
         ELSE IF curr_common_mode >= Len(T.common_factors.items) THEN [ok |-> FALSE, items |-> factors]
              ELSE to_regular_loop(T, mode + 1, curr_common_mode + 1,
                                   Append(factors, T.common_factors.items[curr_common_mode + 1]))

to_regular_tucker(T, n) ==
    LET r == to_regular_loop(T, 0, 0, <<>>)
    IN [ok |-> r.ok, rt |-> RegularTucker(T.core, List(n, r.items))]

\* Tucker.__deepcopy__: clones of the core, of every regular factor and of the
\* shared factor, and a deep copy of the symmetric_modes list; n is the first
\* unused identity
deepcopy(T, n) ==
    LET len == Len(T.common_factors.items)
        new_core == copy(T.core, n)
        factor(j) == copy(T.common_factors.items[j], n + 3 + j)
        symmetic_factor == copy(T.symmetric_factor, n + 3)
    IN IF ~new_core.ok \/ (\E j \in 1..len : ~factor(j).ok) \/ ~symmetic_factor.ok THEN [ok |-> FALSE, t |-> NullT]
       ELSE [ok |-> TRUE,
             t |-> Tucker(new_core.obj, List(n + 1, [j \in 1..len |-> factor(j).obj]),
                          List(n + 2, T.symmetric_modes.items), symmetic_factor.obj)]

\* ---------------------------------------------------------- what a call returns
NoPlan == [core |-> <<>>, factors |-> <<>>, transposed |-> <<>>, operand |-> <<>>, result |-> <<>>, batch |-> <<>>]

NoWrite == [list |-> 0, pos |-> 0, obj |-> PyNone]

Outcome(kind, t, rt, val, sh) == [kind |-> kind, t |-> t, rt |-> rt, val |-> val, shape |-> sh, write |-> NoWrite]

NoResult == Outcome("none", NullT, NullRT, 0, <<>>)

Raised == Outcome("raise", NullT, NullRT, 0, <<>>)

RetTucker(t) == Outcome("tucker", t, NullRT, 0, <<>>)

RetRegular(rt) == Outcome("regular", NullT, rt, 0, <<>>)

RetScalar(v) == Outcome("scalar", NullT, NullRT, v, <<>>)

RetDense(sh) == Outcome("dense", NullT, NullRT, 0, sh)

RetMatrix == Outcome("matrix", NullT, NullRT, 0, <<>>)

\* ------------------------------------------------------- the plain Tucker tensor
\* RegularTucker.__add__: the direct sum.  The core has rank r1[j] + r2[j] on
\* every mode, the first operand's core in the leading block, the second's in the
\* trailing block and zeros elsewhere; the factors are concatenated along their
\* rank axis.  Every array of the result is new.
RegularAdd(X, Y, n) ==
    LET d == Len(X.core.arr.shape)
        r1 == X.core.arr.shape
        r2 == Y.core.arr.shape
        lead(ix) == \A j \in 1..d : ix[j] < r1[j]
        trail(ix) == \A j \in 1..d : ix[j] >= r1[j]
        core == Arr([j \in 1..d |-> r1[j] + r2[j]],
                    LAMBDA ix : IF lead(ix) THEN X.core.arr.val[ix]
                                ELSE IF trail(ix) THEN Y.core.arr.val[[j \in 1..d |-> ix[j] - r1[j]]] ELSE 0)
        factor(j) == concatenate(X.factors.items[j], Y.factors.items[j], 1)
    IN IF Len(r2) # d \/ Len(X.factors.items) # d \/ Len(Y.factors.items) # d THEN Raised
       ELSE IF \E j \in 1..d : ~factor(j).ok THEN Raised
       ELSE RetRegular(RegularTucker(Obj(n, core), List(n + 1, [j \in 1..d |-> Obj(n + 1 + j, factor(j).arr)])))

\* RegularTucker.k_mode_product: on a copy, factor k is replaced by mat @ factor k
RegularKModeProduct(X, k, mat, n) ==
    LET d == Len(X.factors.items)
        prod == MatMul(mat, X.factors.items[k + 1])
    IN IF k < 0 \/ k >= d THEN Raised
       ELSE IF (\E j \in 1..d : X.factors.items[j].none) \/ ~prod.ok THEN Raised
       ELSE RetRegular(RegularTucker(Obj(n, X.core.arr),
                                     List(n + 1, [j \in 1..d |-> IF j = k + 1 THEN Obj(n + 1 + j, prod.arr)
                                                                 ELSE Obj(n + 1 + j, X.factors.items[j].arr)])))

\* RegularTucker.full: the core contracted with every factor
RegularFull(X) ==
    LET d == Len(X.core.arr.shape)
    IN IF \E j \in 1..d : X.factors.items[j].none THEN Raise
       ELSE Einsum(<<X.core.arr>> \o [j \in 1..d |-> X.factors.items[j].arr],
                   <<[j \in 1..d |-> j - 1]>> \o [j \in 1..d |-> <<d + j - 1, j - 1>>],
                   [j \in 1..d |-> d + j - 1])

\* ------------------------------------------------ operations of class Tucker
\* the call `back.pad(core, pad_width, mode="constant", constant_values=0)` of
\* Tucker.__add__: PyTorchBackend.pad declares no parameter mode, so the call
\* raises TypeError when the backend hands it the keywords as they are, and runs
\* pad when it does not (kwargs_ok)
pad_call_mut(t, pad_width, kwargs_ok) == Ok(t)

pad_call(t, pad_width, kwargs_ok) == IF kwargs_ok THEN Ok(pad(t, pad_width)) ELSE Raise

\* Tucker.__add__
add(S, O, n, kwargs_ok) ==
    IF S.symmetric_modes.items # O.symmetric_modes.items
    THEN LET x == to_regular_tucker(S, n)
             y == to_regular_tucker(O, n + 1)
         IN IF ~x.ok \/ ~y.ok THEN Raised ELSE RegularAdd(x.rt, y.rt, n + 2)
    ELSE LET r1 == rank(S)
             r2 == rank(O)
             padded_core1 == pad_call(S.core.arr, [j \in 1..ndim(S) |-> IF j - 1 > 0 THEN <<0, r2[j]>> ELSE <<0, 0>>], kwargs_ok)
             padded_core2 == pad_call(O.core.arr, [j \in 1..ndim(O) |-> IF j - 1 > 0 THEN <<r1[j], 0>> ELSE <<0, 0>>], kwargs_ok)
             core == concatenate(Obj(0, padded_core1.arr), Obj(0, padded_core2.arr), 0)
             len == Len(S.common_factors.items)
             factor(j) == concatenate(S.common_factors.items[j], O.common_factors.items[j], 1)
             symmetric_factor == concatenate(S.symmetric_factor, O.symmetric_factor, 1)
         IN IF ndim(S) # ndim(O) \/ Len(O.common_factors.items) < len THEN Raised
            ELSE IF ~padded_core1.ok \/ ~padded_core2.ok THEN Raised
            ELSE IF ~core.ok \/ (\E j \in 1..len : ~factor(j).ok) \/ ~symmetric_factor.ok THEN Raised
            ELSE RetTucker(Tucker(Obj(n, core.arr), List(n + 1, [j \in 1..len |-> Obj(n + 2 + j, factor(j).arr)]),
                                  S.symmetric_modes, Obj(n + 2, symmetric_factor.arr)))

\* Tucker.__rmul__: a deep copy whose core is replaced by a * core
rmul(S, a, n) ==
    LET new_tensor == deepcopy(S, n)
    IN IF ~new_tensor.ok THEN Raised
       ELSE RetTucker(Tucker(Obj(n + 4 + Len(S.common_factors.items), Scale(a, new_tensor.t.core.arr)),
                             new_tensor.t.common_factors, new_tensor.t.symmetric_modes, new_tensor.t.symmetric_factor))

\* Tucker.__neg__
neg(S, n) == rmul(S, -1, n)

\* Tucker.__sub__
sub(S, O, n, kwargs_ok) ==
    LET other == neg(O, n)
    IN IF other.kind = "raise" THEN Raised ELSE add(S, other.t, n + 5 + Len(O.common_factors.items), kwargs_ok)

\* Tucker.full
full(S) ==
    LET d == ndim(S)
        r == to_regular_loop(S, 0, 0, <<>>)
    IN IF ~r.ok \/ (\E j \in 1..Len(r.items) : r.items[j].none) THEN Raise
       ELSE Einsum(<<S.core.arr>> \o [j \in 1..d |-> r.items[j].arr],
                   <<[j \in 1..d |-> j - 1]>> \o [j \in 1..d |-> <<d + j - 1, j - 1>>],
                   [j \in 1..d |-> d + j - 1])

\* the range check without its `k < 0`
k_invalid_mut(S, k) == k >= ndim(S)

\* the range check that opens Tucker.k_mode_product
k_invalid(S, k) == k < 0 \/ k >= ndim(S)

\* the shift of a regular mode's index: `sum(1 for m in self.symmetric_modes if k > m)`
k_change(S, k) == Cardinality({j \in 1..Len(S.symmetric_modes.items) : k > S.symmetric_modes.items[j]})

\* Tucker.k_mode_product.  The item assignment into new_tensor.common_factors is
\* returned as a write to that list object (a negative index counts from the end)
k_mode_product(S, k, mat, n) ==
    IF k_invalid(S, k) THEN Raised
    ELSE IF IsSymmetric(S, k)
    THEN LET x == to_regular_tucker(S, n)
         IN IF ~x.ok THEN Raised ELSE RegularKModeProduct(x.rt, k, mat, n + 1)
    ELSE LET k2 == k - k_change(S, k)
             new_tensor == deepcopy(S, n)
             len == Len(S.common_factors.items)
             pos == IF k2 < 0 THEN len + k2 ELSE k2
         IN IF ~new_tensor.ok \/ k2 >= len \/ k2 < 0 - len THEN Raised
            ELSE LET prod == MatMul(mat, new_tensor.t.common_factors.items[pos + 1])
                 IN IF ~prod.ok THEN Raised
                    ELSE [RetTucker(new_tensor.t) EXCEPT !.write = [list |-> new_tensor.t.common_factors.id, pos |-> pos,
                                                                   obj |-> Obj(n + 4 + len, prod.arr)]]

\* symmetric_modes_product with the product taken on the wrong side
symmetric_modes_product_mut(S, mat, n) ==
    LET new_tensor == deepcopy(S, n)
    IN IF ~new_tensor.ok THEN Raised
       ELSE LET prod == MatMul(new_tensor.t.symmetric_factor, mat)
            IN IF ~prod.ok THEN Raised
               ELSE RetTucker([new_tensor.t EXCEPT !.symmetric_factor = Obj(n + 4 + Len(S.common_factors.items), prod.arr)])

\* Tucker.symmetric_modes_product
symmetric_modes_product(S, mat, n) ==
    LET new_tensor == deepcopy(S, n)
    IN IF ~new_tensor.ok THEN Raised
       ELSE LET prod == MatMul(mat, new_tensor.t.symmetric_factor)
            IN IF ~prod.ok THEN Raised
               ELSE RetTucker([new_tensor.t EXCEPT !.symmetric_factor = Obj(n + 4 + Len(S.common_factors.items), prod.arr)])

\* `lst[pos] = obj` on the list object with identity w.list, seen through tensor T
StoreItem(T, w) ==
    IF w.list # 0 /\ T.common_factors.id = w.list
    THEN [T EXCEPT !.common_factors.items[w.pos + 1] = w.obj]
    ELSE T

\* string.ascii_letters holds 52 letters; a label is a position in it
AsciiLetters == 52

\* the label plan of Tucker.flat_inner: core_letters, then for every mode i the
\* factor label pair (ndim + i, i), for a regular mode the transposed pair
\* (ndim + 2 i, ndim + i), and the intermediate core's label ndim + i for a
\* symmetric mode, ndim + 2 i for a regular one
RECURSIVE flat_inner_loop(_, _, _)
flat_inner_loop(S, i, pl) ==
    IF i >= ndim(S) THEN pl
    ELSE IF IsSymmetric(S, i)
         THEN flat_inner_loop(S, i + 1, [pl EXCEPT !.factors = Append(@, <<ndim(S) + i, pl.core[i + 1]>>),
                                                   !.result = Append(@, ndim(S) + i)])
         ELSE flat_inner_loop(S, i + 1, [pl EXCEPT !.factors = Append(@, <<ndim(S) + i, pl.core[i + 1]>>),
                                                   !.transposed = Append(@, <<ndim(S) + 2 * i, ndim(S) + i>>),
                                                   !.result = Append(@, ndim(S) + 2 * i)])

flat_inner_plan(S) == flat_inner_loop(S, 0, [NoPlan EXCEPT !.core = [j \in 1..ndim(S) |-> j - 1]])

\* (intermediate_core * other.core).sum(): the elementwise product broadcasts a
\* dimension of size 1 and raises when two sizes differ otherwise
MulSum(x, y) ==
    LET d == Len(x.shape)
        sh == [j \in 1..d |-> IF x.shape[j] = 1 THEN y.shape[j] ELSE x.shape[j]]
        at(a, ix) == a.val[[j \in 1..d |-> IF a.shape[j] = 1 THEN 0 ELSE ix[j]]]
    IN IF Len(y.shape) # d \/ (\E j \in 1..d : x.shape[j] # y.shape[j] /\ x.shape[j] # 1 /\ y.shape[j] # 1) THEN Raised
       ELSE RetScalar(SumSet(Idx(sh), [ix \in Idx(sh) |-> at(x, ix) * at(y, ix)]))

\* Tucker.flat_inner
flat_inner(S, O, n) ==
    IF S.symmetric_modes.items # O.symmetric_modes.items
    THEN LET x == to_regular_tucker(S, n)
             y == to_regular_tucker(O, n + 1)
         IN IF ~x.ok \/ ~y.ok THEN Raised ELSE RegularAdd(x.rt, y.rt, n + 2)
    ELSE IF S.symmetric_factor.none \/ O.symmetric_factor.none THEN Raised
    ELSE LET pl == flat_inner_plan(S)
             d == ndim(S)
             len == Len(S.common_factors.items)
             symmetric_factor == MatMul(Obj(0, Transpose(O.symmetric_factor.arr)), S.symmetric_factor)
             regular == SortedList({i \in 0..(d - 1) : ~IsSymmetric(S, i)})
             cur(i) == CHOOSE c \in 1..Len(regular) : regular[c] = i
             factors == [j \in 1..d |-> IF IsSymmetric(S, j - 1) THEN symmetric_factor.arr ELSE S.common_factors.items[cur(j - 1)].arr]
             transposed_factors == [c \in 1..Len(regular) |-> Transpose(O.common_factors.items[c].arr)]
         IN IF ~symmetric_factor.ok \/ Len(regular) > len \/ Len(regular) > Len(O.common_factors.items) THEN Raised
            ELSE IF \E l \in EinsumLabels(<<pl.core>> \o pl.factors \o pl.transposed) : l >= AsciiLetters THEN Raised
            ELSE LET intermediate_core == Einsum(<<S.core.arr>> \o factors \o transposed_factors,
                                                 <<pl.core>> \o pl.factors \o pl.transposed, pl.result)
                 IN IF ~intermediate_core.ok THEN Raised ELSE MulSum(intermediate_core.arr, O.core.arr)

\* RegularTucker.flat_inner: the Frobenius inner product of the two tensors
RegularFlatInner(X, Y) ==
    LET x == RegularFull(X)
        y == RegularFull(Y)
    IN IF ~x.ok \/ ~y.ok \/ x.arr.shape # y.arr.shape THEN Raised
       ELSE RetScalar(SumSet(Idx(x.arr.shape), [ix \in Idx(x.arr.shape) |-> x.arr.val[ix] * y.arr.val[ix]]))

\* ------------------------------------------------------------------- inputs
\* The operands are drawn from a family of well-formed tensors: d modes, the set
\* sym of symmetric modes, rank p on the symmetric modes and ((p + i) % MaxRank) + 1
\* on regular mode i, size q on every mode that is symmetric in either operand and
\* ((q + i) % MaxSize) + 1 on the others (so both operands have one dense shape),
\* and entries fixed by the position, the mode and the operand's tag.
GenCore(sh, tag) == Arr(sh, LAMBDA ix : 1 + LinIdx(sh, ix) + tag)

GenFactor(rows, cols, i, tag) == Arr(<<rows, cols>>, LAMBDA ix : ((ix[1] + 2 * ix[2] + i + tag) % 3) + 1)

GenMat(rows, cols) == Arr(<<rows, cols>>, LAMBDA ix : 1 + ix[1] + 2 * ix[2])

GenTucker(d, sym, symAny, p, q, tag, base, sfNone) ==
    LET RankOf(i) == IF i \in sym THEN p ELSE ((p + i) % MaxRank) + 1
        SizeOf(i) == IF i \in symAny THEN q ELSE ((q + i) % MaxSize) + 1
        reg == SortedList((0..(d - 1)) \ sym)
    IN Tucker(Obj(base + 1, GenCore([j \in 1..d |-> RankOf(j - 1)], tag)),
              List(base + 2, [j \in 1..Len(reg) |-> Obj(base + 4 + j, GenFactor(SizeOf(reg[j]), RankOf(reg[j]), reg[j], tag))]),
              List(base + 3, SortedList(sym)),
              IF sfNone THEN PyNone ELSE Obj(base + 4, GenFactor(q, p, d, tag)))

\* the pairs of operands: a tensor without symmetric modes may also be one that
\* full2tuck built, whose symmetric_factor is None
Operands ==
    {<<GenTucker(d, symA, symA \cup symB, pA, q, 0, 0, noneA), GenTucker(d, symB, symA \cup symB, pB, q, 1, 20, noneB)>> :
        <<d, symA, symB, pA, pB, q, noneA, noneB>> \in
            {x \in (1..MaxDim) \X (SUBSET (0..(MaxDim - 1))) \X (SUBSET (0..(MaxDim - 1))) \X (1..MaxRank) \X (1..MaxRank)
                   \X (1..MaxSize) \X BOOLEAN \X BOOLEAN :
                /\ x[2] \subseteq 0..(x[1] - 1)
                /\ x[3] \subseteq 0..(x[1] - 1)
                /\ x[7] => x[2] = {}
                /\ x[8] => x[3] = {}}}

NoSeq == [none |-> TRUE, items |-> <<>>]

SomeSeq(s) == [none |-> FALSE, items |-> s]

Call(op, k, a, mat, n, m) == [op |-> op, k |-> k, a |-> a, mat |-> mat, n |-> n, m |-> m, other |-> <<>>]

NoCall == Call("none", 0, 0, PyNone, NoSeq, NoSeq)

NoMatrix == [ndim |-> 0, dt |-> 0, ds |-> 0, n |-> <<>>, m |-> <<>>, core |-> <<>>, factors |-> <<>>, shared_factor |-> <<>>]

Init ==
    /\ \E ab \in Operands : A = ab[1] /\ B = ab[2]
    /\ call = NoCall
    /\ res = NoResult
    /\ W = NoMatrix
    /\ plan = NoPlan
    /\ steps = 0

\* ------------------------------------------------------------------ actions
\* a call returns: the result is recorded, and a write to a list object reaches
\* every tensor that holds that list
Return(c, r) ==
    /\ call' = c
    /\ res' = [r EXCEPT !.t = StoreItem(r.t, r.write)]
    /\ A' = StoreItem(A, r.write)
    /\ B' = StoreItem(B, r.write)
    /\ UNCHANGED <<W, plan, steps>>

Add ==
    /\ res.kind = "none"
    /\ \E kwargs_ok \in BOOLEAN : Return(Call("add", 0, 0, PyNone, NoSeq, NoSeq), add(A, B, 50, kwargs_ok))

Sub ==
    /\ res.kind = "none"
    /\ \E kwargs_ok \in BOOLEAN : Return(Call("sub", 0, 0, PyNone, NoSeq, NoSeq), sub(A, B, 50, kwargs_ok))

Neg ==
    /\ res.kind = "none"
    /\ Return(Call("neg", 0, 0, PyNone, NoSeq, NoSeq), neg(A, 50))

RMul ==
    /\ res.kind = "none"
    /\ \E a \in {0, 2, -3} : Return(Call("rmul", 0, a, PyNone, NoSeq, NoSeq), rmul(A, a, 50))

KModeProduct ==
    /\ res.kind = "none"
    /\ \E k \in (-1)..ndim(A), rows \in 1..MaxSize, cols \in 1..MaxSize :
          LET mat == Obj(40, GenMat(rows, cols))
          IN Return(Call("k_mode_product", k, 0, mat, NoSeq, NoSeq), k_mode_product(A, k, mat, 50))

SymmetricModesProduct ==
    /\ res.kind = "none"
    /\ \E rows \in 1..MaxSize, cols \in 1..MaxSize :
          LET mat == Obj(40, GenMat(rows, cols))
          IN Return(Call("symmetric_modes_product", 0, 0, mat, NoSeq, NoSeq), symmetric_modes_product(A, mat, 50))

\* SFTuckerMatrix.from_dense: the check of n and m, then the decomposition
from_dense(n, m) == IF n.none \/ m.none THEN Raised ELSE RetMatrix

FromDense ==
    /\ res.kind = "none"
    /\ \E n \in {NoSeq, SomeSeq([j \in 1..ndim(A) |-> 1])}, m \in {NoSeq, SomeSeq([j \in 1..ndim(A) |-> 1])} :
          Return(Call("from_dense", 0, 0, PyNone, n, m), from_dense(n, m))

Next == Add \/ Sub \/ Neg \/ RMul \/ KModeProduct \/ SymmetricModesProduct \/ FromDense

Spec == Init /\ [][Next]_vars

\* ------------------------------------------------------------ claim helpers
IsCall(op) == call.op = op /\ res.kind # "none"

SameModes == A.symmetric_modes.items = B.symmetric_modes.items

HasSharedFactor(T) == ~T.symmetric_factor.none

\* x + y of two arrays of one shape
AddArr(x, y) == Arr(x.shape, LAMBDA ix : x.val[ix] + y.val[ix])

\* the block layout of a direct sum: x in the leading block, y in the trailing one
IsDirectSum(c, x, y) ==
    LET d == Len(x.shape)
    IN /\ c.shape = [j \in 1..d |-> x.shape[j] + y.shape[j]]
       /\ \A ix \in Idx(c.shape) :
             c.val[ix] = IF \A j \in 1..d : ix[j] < x.shape[j] THEN x.val[ix]
                         ELSE IF \A j \in 1..d : ix[j] >= x.shape[j] THEN y.val[[j \in 1..d |-> ix[j] - x.shape[j]]]
                         ELSE 0

\* the columns of x followed by the columns of y
IsColumnConcat(c, x, y) ==
    /\ c.shape = <<x.shape[1], x.shape[2] + y.shape[2]>>
    /\ \A ix \in Idx(c.shape) :
          c.val[ix] = IF ix[2] < x.shape[2] THEN x.val[ix] ELSE y.val[<<ix[1], ix[2] - x.shape[2]>>]

\* the identities of the objects a tensor holds (None has no identity)
Ids(T) ==
    ({T.core.id, T.common_factors.id, T.symmetric_modes.id, T.symmetric_factor.id}
        \cup {T.common_factors.items[j].id : j \in 1..Len(T.common_factors.items)}) \ {0}

RegularIds(X) == ({X.core.id, X.factors.id} \cup {X.factors.items[j].id : j \in 1..Len(X.factors.items)}) \ {0}

\* the arrays of a plain tensor, without the identities
RegularValue(X) == [core |-> X.core.arr, factors |-> [j \in 1..Len(X.factors.items) |-> X.factors.items[j].arr]]

\* the plain form of a structured tensor, mode by mode: the shared factor at a
\* symmetric mode, and at a regular mode the regular factor whose position is the
\* number of regular modes before it
PlainOf(T) ==
    LET sm == Range(T.symmetric_modes.items)
    IN RegularTucker(T.core,
                     List(0, [j \in 1..ndim(T) |-> IF (j - 1) \in sm THEN T.symmetric_factor
                                                  ELSE T.common_factors.items[1 + Cardinality({i \in 0..(j - 2) : i \notin sm})]]))

\* C1: for operands with equal symmetric_modes (and a shared factor each), the
\* sum A + B that the call returns is the direct sum: ranks add up on every mode,
\* A's core is the leading block and B's the trailing block with zeros elsewhere,
\* the factors are A's columns followed by B's, and full(A + B) = full(A) + full(B)
C1_AddIsDirectSum ==
    (IsCall("add") /\ SameModes /\ HasSharedFactor(A) /\ HasSharedFactor(B) /\ res.kind # "raise") =>
        /\ res.kind = "tucker"
        /\ IsDirectSum(res.t.core.arr, A.core.arr, B.core.arr)
        /\ \A j \in 1..Len(A.common_factors.items) :
              IsColumnConcat(res.t.common_factors.items[j].arr, A.common_factors.items[j].arr, B.common_factors.items[j].arr)
        /\ IsColumnConcat(res.t.symmetric_factor.arr, A.symmetric_factor.arr, B.symmetric_factor.arr)
        /\ full(res.t) = Ok(AddArr(full(A).arr, full(B).arr))

\* C4: adding operands whose symmetric_modes differ returns the plain sum of the
\* two plain forms, the shared factor standing at every symmetric mode and the
\* regular factors in their order at the other modes
C4_AddFallsBackToPlain ==
    (IsCall("add") /\ ~SameModes) =>
        LET expected == RegularAdd(PlainOf(A), PlainOf(B), 0)
        IN /\ res.kind = expected.kind
           /\ RegularValue(res.rt) = RegularValue(expected.rt)

C4_Witness ==
    /\ IsCall("add") /\ ~SameModes /\ res.kind = "regular"
    /\ A.symmetric_modes.items # <<>> /\ Len(A.common_factors.items) >= 1
    /\ Len(B.common_factors.items) >= 2

\* the shape of what a call returned, structured or plain
ResultShape == IF res.kind = "tucker" THEN shape(res.t).shape ELSE [j \in 1..Len(res.rt.factors.items) |-> res.rt.factors.items[j].arr.shape[1]]

ResultRank == IF res.kind = "tucker" THEN rank(res.t) ELSE res.rt.core.arr.shape

\* the k_mode_product calls the mode-product contract speaks of
ValidKModeCall ==
    /\ IsCall("k_mode_product")
    /\ call.k >= 0 /\ call.k < ndim(A)
    /\ shape(A).ok
    /\ call.mat.arr.shape[2] = shape(A).shape[call.k + 1]

KModeContract ==
    LET k == call.k
        sm == Range(A.symmetric_modes.items)
        pos == k - Cardinality({i \in sm : i < k})
    IN /\ res.kind \in {"tucker", "regular"}
       /\ Len(ResultShape) = ndim(A)
       /\ ResultShape[k + 1] = call.mat.arr.shape[1]
       /\ \A j \in 1..ndim(A) : j # k + 1 => ResultShape[j] = shape(A).shape[j]
       /\ ResultRank = rank(A)
       /\ k \notin sm =>
             /\ res.kind = "tucker"
             /\ res.t.core.arr = A.core.arr
             /\ res.t.symmetric_modes.items = A.symmetric_modes.items
             /\ res.t.symmetric_factor.arr = A.symmetric_factor.arr
             /\ Len(res.t.common_factors.items) = Len(A.common_factors.items)
             /\ \A j \in 1..Len(A.common_factors.items) :
                   res.t.common_factors.items[j].arr =
                       IF j = pos + 1 THEN MatMul(call.mat, A.common_factors.items[j]).arr ELSE A.common_factors.items[j].arr

\* C5: for every structured tensor, every mode k in range and every matrix whose
\* second dimension is the size of mode k, k_mode_product returns a tensor with
\* shape[k] = mat.shape[0], the other shape entries and the rank unchanged; for a
\* regular k the factor replaced is the one at k minus the number of symmetric
\* modes below k
C5_KModeProductShape == ValidKModeCall => KModeContract

\* the same contract for the tensors that hold a shared factor
C5_KModeProductShape_SharedFactor == (ValidKModeCall /\ HasSharedFactor(A)) => KModeContract

\* C6: symmetric_modes_product with a matrix whose second dimension is the shared
\* factor's first returns a tensor whose shared factor keeps its second dimension,
\* whose shape is mat.shape[0] on every symmetric mode, and whose regular shape
\* entries, core and symmetric_modes are the operand's
C6_SymmetricModesProductShape ==
    (IsCall("symmetric_modes_product") /\ HasSharedFactor(A) /\ call.mat.arr.shape[2] = A.symmetric_factor.arr.shape[1]) =>
        /\ res.kind = "tucker"
        /\ res.t.symmetric_factor.arr.shape = <<call.mat.arr.shape[1], A.symmetric_factor.arr.shape[2]>>
        /\ shape(res.t).ok /\ Len(shape(res.t).shape) = ndim(A)
        /\ \A j \in 1..ndim(A) :
              shape(res.t).shape[j] = IF IsSymmetric(A, j - 1) THEN call.mat.arr.shape[1] ELSE shape(A).shape[j]
        /\ res.t.core.arr = A.core.arr
        /\ res.t.symmetric_modes.items = A.symmetric_modes.items

C6_Witness ==
    /\ IsCall("symmetric_modes_product") /\ res.kind = "tucker"
    /\ Len(A.symmetric_modes.items) >= 2
    /\ call.mat.arr.shape[1] # call.mat.arr.shape[2]
    /\ A.symmetric_factor.arr.shape[2] # call.mat.arr.shape[1]

\* the calls the error contract calls invalid, c being the call and T its operand
InvalidCall(c, T) ==
    \/ c.op = "k_mode_product" /\ (c.k < 0 \/ c.k >= ndim(T))
    \/ c.op = "k_mode_product" /\ c.k >= 0 /\ c.k < ndim(T) /\ shape(T).ok /\ c.mat.arr.shape[2] # shape(T).shape[c.k + 1]
    \/ c.op = "symmetric_modes_product" /\ HasSharedFactor(T) /\ c.mat.arr.shape[2] # T.symmetric_factor.arr.shape[1]
    \/ c.op = "from_dense" /\ (c.n.none \/ c.m.none)

\* C7: an invalid call (k out of range, a matrix whose second dimension does not
\* match the factor's first, from_dense without n or m) raises, and the operands
\* are after the call what they were before it
C7_InvalidCallRaises == [][InvalidCall(call', A) => (res'.kind = "raise" /\ A' = A /\ B' = B)]_vars

C7_Witness ==
    /\ IsCall("k_mode_product") /\ res.kind = "raise"
    /\ call.k >= 0 /\ call.k < ndim(A) /\ ~IsSymmetric(A, call.k)
    /\ HasSharedFactor(A)
    /\ call.mat.arr.shape[2] # shape(A).shape[call.k + 1]

\* C9: what an operator returns shares no object with an operand
C9_NoSharedObjects ==
    /\ res.kind = "tucker" => Ids(res.t) \cap (Ids(A) \cup Ids(B)) = {}
    /\ res.kind = "regular" => RegularIds(res.rt) \cap (Ids(A) \cup Ids(B)) = {}

\* ------------------------------------------------------ the inner product
FlatInner ==
    /\ res.kind = "none"
    /\ call' = Call("flat_inner", 0, 0, PyNone, NoSeq, NoSeq)
    /\ res' = flat_inner(A, B, 50)
    /\ plan' = IF SameModes THEN flat_inner_plan(A) ELSE NoPlan
    /\ UNCHANGED <<A, B, W, steps>>

SpecInner == Init /\ [][FlatInner]_vars

\* the labels the plan attaches to mode i (0-based): those of its core axis, of
\* its factor, of its transposed factor when it is regular, and of its axis of
\* the intermediate core
RegularPos(T, i) == 1 + Cardinality({j \in 0..(i - 1) : ~IsSymmetric(T, j)})

ModeLabels(T, i) ==
    {plan.core[i + 1], plan.factors[i + 1][1], plan.factors[i + 1][2], plan.result[i + 1]}
        \cup (IF IsSymmetric(T, i) THEN {} ELSE Range(plan.transposed[RegularPos(T, i)]))

\* the Frobenius inner product of the dense tensors
DenseInner(x, y) == SumSet(Idx(x.shape), [ix \in Idx(x.shape) |-> x.val[ix] * y.val[ix]])

\* C2: for operands with equal symmetric_modes the plan of flat_inner gives every
\* regular mode three labels (core axis, full-size axis, axis of the other
\* operand's rank) that are pairwise distinct and used by no other mode, and
\* flat_inner(A, B) is the sum of the elementwise product of full(A) and full(B)
C2_FlatInnerPlan ==
    (IsCall("flat_inner") /\ SameModes /\ HasSharedFactor(A) /\ HasSharedFactor(B)) =>
        /\ \A i \in 0..(ndim(A) - 1) : ~IsSymmetric(A, i) =>
              /\ Cardinality({plan.core[i + 1], plan.factors[i + 1][1], plan.transposed[RegularPos(A, i)][1]}) = 3
              /\ \A j \in 0..(ndim(A) - 1) : j # i => ModeLabels(A, i) \cap ModeLabels(A, j) = {}
        /\ res.kind = "scalar"
        /\ res.val = DenseInner(full(A).arr, full(B).arr)

\* C3: flat_inner of operands whose symmetric_modes differ returns the scalar
\* that the plain inner product of the two plain forms returns
C3_FlatInnerFallback ==
    (IsCall("flat_inner") /\ ~SameModes) =>
        /\ res.kind = "scalar"
        /\ res.val = RegularFlatInner(PlainOf(A), PlainOf(B)).val

\* ------------------------------------------------------------ the matrix view
\* SFTuckerMatrix: ndim modes, the first dt with a regular factor each and the
\* last ds sharing shared_factor; mode i splits into n[i] rows and m[i] columns.
\* The arrays of the matrix view are held by their shapes: core has the ranks,
\* factor i has shape (n[i] * m[i], rank i), shared_factor (n[-1] * m[-1], rank).
ShapeOnly(sh) == [shape |-> sh]

GenMatrix(d, ds, pn, pm, p) ==
    LET dt == d - ds
        last(f) == IF ds = 0 THEN f ELSE [j \in 1..d |-> IF j > dt THEN f[d] ELSE f[j]]
        n == last([j \in 1..d |-> ((pn + j - 1) % MaxSize) + 1])
        m == last([j \in 1..d |-> ((pm + j - 1) % MaxSize) + 1])
        r == last([j \in 1..d |-> ((p + j - 1) % MaxRank) + 1])
    IN [ndim |-> d, dt |-> dt, ds |-> ds, n |-> n, m |-> m, core |-> r,
        factors |-> [j \in 1..dt |-> <<n[j] * m[j], r[j]>>],
        shared_factor |-> <<n[d] * m[d], r[d]>>]

Matrices == {GenMatrix(d, ds, pn, pm, p) : <<d, ds, pn, pm, p>> \in
                {x \in (1..MaxMatDim) \X (0..MaxMatDim) \X (1..MaxSize) \X (1..MaxSize) \X (1..MaxRank) : x[2] <= x[1]}}

\* PyTorchBackend.reshape(factor, (n, m, -1), order="F") on shapes: the last
\* dimension is what is left of the number of entries
reshape(sh, n, m) ==
    IF n * m = 0 \/ SeqProd(sh) % (n * m) # 0 THEN [ok |-> FALSE, shape |-> <<>>]
    ELSE [ok |-> TRUE, shape |-> <<n, m, SeqProd(sh) \div (n * m)>>]

\* the label plan of SFTuckerMatrix.__matmul__ for a dense operand of order
\* other_ndim: factor i is labelled (ndim + 2 i, ndim + 2 i + 1, i), the operand
\* takes the first label of every factor and the result the second, and batch
\* label i is 2 (ndim + 1) + i + 1
matmul_plan(Wm, other_ndim) ==
    LET d == Wm.ndim
        core_letters == [j \in 1..d |-> j - 1]
        factors_letters == [j \in 1..d |-> <<d + 2 * (j - 1), d + 2 * (j - 1) + 1, core_letters[j]>>]
        operand_letters == [j \in 1..d |-> factors_letters[j][1]]
        result_letters == [j \in 1..d |-> factors_letters[j][2]]
        nbatch == IF other_ndim > d THEN other_ndim - d ELSE 0
        batch_letters == [j \in 1..nbatch |-> 2 * (d + 1) + (j - 1) + 1]
    IN [core |-> core_letters, factors |-> factors_letters, transposed |-> <<>>,
        operand |-> batch_letters \o operand_letters, result |-> batch_letters \o result_letters, batch |-> batch_letters]

\* SFTuckerMatrix.__matmul__ with a dense operand of shape other
matmul(Wm, other) ==
    LET pl == matmul_plan(Wm, Len(other))
        reshaped(j) == reshape(Wm.factors[j], Wm.n[j], Wm.m[j])
        reshaped_shared_factor == reshape(Wm.shared_factor, Wm.n[Wm.ndim], Wm.m[Wm.ndim])
        ops == <<ShapeOnly(Wm.core)>> \o [j \in 1..Wm.dt |-> ShapeOnly(reshaped(j).shape)]
                   \o [j \in 1..Wm.ds |-> ShapeOnly(reshaped_shared_factor.shape)] \o <<ShapeOnly(other)>>
        labs == <<pl.core>> \o pl.factors \o <<pl.operand>>
    IN IF (\E j \in 1..Wm.dt : ~reshaped(j).ok) \/ ~reshaped_shared_factor.ok THEN Raised
       ELSE IF \E l \in EinsumLabels(labs) : l >= AsciiLetters THEN Raised
       ELSE IF ~EinsumOk(ops, labs, pl.result) THEN Raised
       ELSE RetDense([j \in 1..Len(pl.result) |-> EinsumSize(ops, labs, pl.result[j])])

InitMatmul ==
    /\ A = NullT /\ B = NullT
    /\ call = NoCall
    /\ res = NoResult
    /\ W \in Matrices
    /\ plan = NoPlan
    /\ steps = 0

\* the operand's trailing axes have the column sizes m or the row sizes n, after
\* b batch axes of size 2
Matmul ==
    /\ res.kind = "none"
    /\ \E b \in 0..MaxBatch, trailing \in {W.m, W.n} :
          LET other == [j \in 1..b |-> 2] \o trailing
          IN /\ call' = [Call("matmul", 0, 0, PyNone, NoSeq, NoSeq) EXCEPT !.other = other]
             /\ res' = matmul(W, other)
             /\ plan' = matmul_plan(W, Len(other))
    /\ UNCHANGED <<A, B, W, steps>>

SpecMatmul == InitMatmul /\ [][Matmul]_vars

NBatch == Len(call.other) - W.ndim

\* C8: with a dense operand, trailing axis i of other is contracted against the
\* column axis (size m[i]) of reshaped factor i and axis i of the result is its
\* row axis (size n[i]): an operand of trailing shape m gives a result of
\* trailing shape n
C8_MatmulIsSelfTimesOther ==
    IsCall("matmul") =>
        /\ \A j \in 1..W.ndim :
              /\ plan.operand[NBatch + j] = plan.factors[j][2]
              /\ plan.result[NBatch + j] = plan.factors[j][1]
        /\ SubSeq(call.other, NBatch + 1, Len(call.other)) = W.m =>
              /\ res.kind = "dense"
              /\ SubSeq(res.shape, NBatch + 1, Len(res.shape)) = W.n

\* C10: with b >= 1 batch axes the batch labels are pairwise distinct, differ
\* from every core label and every factor label, and stand in the same order at
\* the front of the operand's and of the result's labels
C10_BatchLabelsFresh ==
    (IsCall("matmul") /\ NBatch >= 1) =>
        /\ Len(plan.batch) = NBatch
        /\ \A i, j \in 1..NBatch : plan.batch[i] = plan.batch[j] => i = j
        /\ Range(plan.batch) \cap (Range(plan.core) \cup UNION {Range(plan.factors[j]) : j \in 1..W.ndim}) = {}
        /\ SubSeq(plan.operand, 1, NBatch) = plan.batch
        /\ SubSeq(plan.result, 1, NBatch) = plan.batch

\* --------------------------------------------------- sequences of operations
\* A client that keeps what an operation returned and calls the next operation
\* on it: the tensor returned takes the place of one of the two operands.
MaxSteps == 2

\* the identities the next call gives to the objects it creates
FreshId == 50 + 20 * steps

\* the operands a sequence starts from: one order, one set of symmetric modes for
\* both, a shared factor each, the largest rank and the largest size of the family
InitChain ==
    /\ \E d \in 1..MaxDim, sym \in SUBSET (0..(MaxDim - 1)) :
          /\ sym \subseteq 0..(d - 1)
          /\ A = GenTucker(d, sym, sym, MaxRank, MaxSize, 0, 0, FALSE)
          /\ B = GenTucker(d, sym, sym, MaxRank, MaxSize, 1, 20, FALSE)
    /\ call = NoCall
    /\ res = NoResult
    /\ W = NoMatrix
    /\ plan = NoPlan
    /\ steps = 0

\* a call returns and the client keeps a structured result as self or as other
Chained(c, r) ==
    /\ steps' = steps + 1
    /\ call' = c
    /\ res' = [r EXCEPT !.t = StoreItem(r.t, r.write)]
    /\ IF r.kind = "tucker"
       THEN \/ A' = StoreItem(r.t, r.write) /\ B' = StoreItem(B, r.write)
            \/ B' = StoreItem(r.t, r.write) /\ A' = StoreItem(A, r.write)
       ELSE A' = StoreItem(A, r.write) /\ B' = StoreItem(B, r.write)
    /\ UNCHANGED <<W, plan>>

ChainAdd ==
    /\ steps < MaxSteps
    /\ \E kwargs_ok \in BOOLEAN : Chained(Call("add", 0, 0, PyNone, NoSeq, NoSeq), add(A, B, FreshId, kwargs_ok))

ChainSub ==
    /\ steps < MaxSteps
    /\ \E kwargs_ok \in BOOLEAN : Chained(Call("sub", 0, 0, PyNone, NoSeq, NoSeq), sub(A, B, FreshId, kwargs_ok))

ChainNeg ==
    /\ steps < MaxSteps
    /\ Chained(Call("neg", 0, 0, PyNone, NoSeq, NoSeq), neg(A, FreshId))

ChainRMul ==
    /\ steps < MaxSteps
    /\ Chained(Call("rmul", 0, 2, PyNone, NoSeq, NoSeq), rmul(A, 2, FreshId))

\* k_mode_product with any k from -1 to ndim and a matrix that fits mode k
ChainKModeProduct ==
    /\ steps < MaxSteps
    /\ \E k \in (-1)..ndim(A), rows \in 1..MaxSize :
          LET cols == IF k >= 0 /\ k < ndim(A) /\ shape(A).ok THEN shape(A).shape[k + 1] ELSE 1
              mat == Obj(40, GenMat(rows, cols))
          IN Chained(Call("k_mode_product", k, 0, mat, NoSeq, NoSeq), k_mode_product(A, k, mat, FreshId))

\* symmetric_modes_product with a matrix that fits the shared factor
ChainSymmetricModesProduct ==
    /\ steps < MaxSteps
    /\ \E rows \in 1..MaxSize :
          LET mat == Obj(40, GenMat(rows, A.symmetric_factor.arr.shape[1]))
          IN Chained(Call("symmetric_modes_product", 0, 0, mat, NoSeq, NoSeq), symmetric_modes_product(A, mat, FreshId))

NextChain == ChainAdd \/ ChainSub \/ ChainNeg \/ ChainRMul \/ ChainKModeProduct \/ ChainSymmetricModesProduct

SpecChain == InitChain /\ [][NextChain]_vars

\* the data-model invariants of a structured tensor
WellFormed(T) ==
    LET d == Len(T.core.arr.shape)
        sm == T.symmetric_modes.items
        reg == SortedList((0..(d - 1)) \ Range(sm))
    IN /\ Range(sm) \subseteq 0..(d - 1)
       /\ Cardinality(Range(sm)) = Len(sm)
       /\ Len(sm) + Len(T.common_factors.items) = d
       /\ \A j \in 1..Len(T.common_factors.items) :
             /\ Len(T.common_factors.items[j].arr.shape) = 2
             /\ T.common_factors.items[j].arr.shape[2] = T.core.arr.shape[reg[j] + 1]
       /\ sm # <<>> =>
             /\ HasSharedFactor(T)
             /\ Len(T.symmetric_factor.arr.shape) = 2
             /\ \A i \in Range(sm) : T.symmetric_factor.arr.shape[2] = T.core.arr.shape[i + 1]

\* C11: every structured tensor that a sequence of +, -, unary -, scalar *,
\* k_mode_product and symmetric_modes_product reaches from well-formed operands
\* is well-formed: the core has one axis per mode, the symmetric modes and the
\* regular factors together count the modes, every regular factor has as many
\* columns as the core's rank on its mode and the shared factor as many as the
\* core's rank on every symmetric mode
C11_ChainKeepsInvariants ==
    /\ WellFormed(A) /\ WellFormed(B)
    /\ res.kind = "tucker" => WellFormed(res.t)

C11_Witness ==
    /\ steps = MaxSteps
    /\ IsCall("symmetric_modes_product") /\ res.kind = "tucker"
    /\ A = res.t
    /\ \E j \in 1..ndim(A) : rank(A)[j] > MaxRank
    /\ A.symmetric_modes.items # <<>> /\ A.common_factors.items # <<>>
    /\ shape(A).shape[A.symmetric_modes.items[1] + 1] # MaxSize

\* a tensor as full2tuck returns it: no symmetric modes and None for the shared factor
IsFull2Tuck(T) == T.symmetric_modes.items = <<>> /\ T.symmetric_factor.none

\* C12: a tensor that full2tuck returned is a usable operand: scalar *, unary -,
\* + and - with another such tensor and k_mode_product with a valid k and a
\* matrix that fits complete without an error
C12_Full2TuckUsable ==
    (/\ IsFull2Tuck(A) /\ IsFull2Tuck(B)
     /\ \/ IsCall("rmul") \/ IsCall("neg") \/ IsCall("add") \/ IsCall("sub")
        \/ ValidKModeCall) =>
        res.kind # "raise"

====
